---- MODULE Spec2Model ----
(***************************************************************************)
(* FinMan backend: the transaction controllers of                          *)
(* backend/controllers/transactionController.js over the User and          *)
(* Transaction collections.                                                *)
(*                                                                         *)
(* Spec       : every request runs to completion before the next one      *)
(*              starts (one action per controller).                        *)
(* SpecUpdate : creates and the partial updates of every field.            *)
(* SpecList   : the query controller over a store filled by creates.       *)
(* SpecConc   : two requests in flight, interleaved at every await of the  *)
(*              controllers.                                               *)
(***************************************************************************)
EXTENDS Integers, Sequences, FiniteSets

VARIABLES
    txStore,    \* the Transaction collection: _id -> document
    userTx,     \* the User collection: user -> its transactions array
    nextId,     \* the next fresh _id
    resp,       \* the response of the last request run to completion
    pc,         \* per request in flight: the await it stands at
    loc         \* per request in flight: its local variables

vars == <<txStore, userTx, nextId, resp, pc, loc>>

(* Number of Transaction documents ever created (ObjectIds are never reused). *)
MaxTx == 2

(***************************************************************************)
(* JavaScript values of a request body.  A string is a sequence of tokens, *)
(* the token " " being white space.                                        *)
(***************************************************************************)
Undef == [t |-> "undef", s |-> <<>>, n |-> 0]

Str(s) == [t |-> "str", s |-> s, n |-> 0]

Num(n) == [t |-> "num", s |-> <<>>, n |-> n]

(* A string that moment() parses to a valid instant; n counts half days:   *)
(* 2*d is midnight of day d, 2*d+1 is noon of day d.                        *)
DateAt(n) == [t |-> "date", s |-> <<>>, n |-> n]

(* !v *)
Falsy(v) ==
    \/ v.t = "undef"
    \/ v.t = "str" /\ v.s = <<>>
    \/ v.t = "num" /\ v.n = 0

RECURSIVE TrimLeft(_)
TrimLeft(s) == IF s # <<>> /\ Head(s) = " " THEN TrimLeft(Tail(s)) ELSE s

RECURSIVE TrimRight(_)
TrimRight(s) ==
    IF s # <<>> /\ s[Len(s)] = " " THEN TrimRight(SubSeq(s, 1, Len(s) - 1)) ELSE s

(* String.prototype.trim *)
Trim(s) == TrimRight(TrimLeft(s))

Credit == Str(<<"credit">>)

Expense == Str(<<"expense">>)

(* moment(date).isValid() *)
MomentIsValid(v) == v.t = "date"

Range(q) == {q[i] : i \in 1..Len(q)}

(***************************************************************************)
(* The stores.  Users are created elsewhere and never destroyed.            *)
(***************************************************************************)
Users == {"u1", "u2"}

(* User.findById(userId): the user document, or null *)
UserFindById(userId) == userId.t = "str" /\ userId.s \in {<<u>> : u \in Users}

UserKey(userId) == userId.s[1]

UserId(u) == Str(<<u>>)

(* The response of the last request, with the identifiers the request named. *)
Response(op, ids, status, message) ==
    [op |-> op, ids |-> ids, status |-> status, success |-> (status = 200),
     message |-> message, count |-> 0, transactions |-> <<>>]

NoResponse == Response("none", <<>>, 0, "")

(* A request in flight: its body, the user document it loaded (loaded as   *)
(* read, transactions as modified in memory), the response it sent         *)
(* (status 0: none yet) and the fate of its user.save().                    *)
Idle == [op |-> "none", body |-> Undef, id |-> 0, user |-> "", loaded |-> <<>>,
         transactions |-> <<>>, count |-> 0, status |-> 0, saved |-> "none"]

Procs == {1, 2}

Init ==
    /\ txStore = <<>>
    /\ userTx = [u \in Users |-> <<>>]
    /\ nextId = 1
    /\ resp = NoResponse
    /\ pc = [p \in Procs |-> "idle"]
    /\ loc = [p \in Procs |-> Idle]

(***************************************************************************)
(* addTransactionController                                                 *)
(***************************************************************************)
AddValidationNoType(body) ==
    IF Falsy(body.title) \/ body.title.t # "str" \/ Len(Trim(body.title.s)) = 0
    THEN "Title must be a non-empty string"
    ELSE IF Falsy(body.amount) \/ body.amount.t # "num" \/ body.amount.n <= 0
    THEN "Amount must be a positive number"
    ELSE IF Falsy(body.date) \/ ~MomentIsValid(body.date)
    THEN "Please provide a valid date"
    ELSE IF Falsy(body.category) \/ body.category.t # "str"
            \/ Len(Trim(body.category.s)) = 0
    THEN "Category must be a non-empty string"
    ELSE IF Falsy(body.userId)
    THEN "User ID is required"
    ELSE IF ~UserFindById(body.userId)
    THEN "User not found"
    ELSE ""

(* The first validation of the request body that fails, "" when all pass.  *)
AddValidation(body) ==
    IF Falsy(body.title) \/ body.title.t # "str" \/ Len(Trim(body.title.s)) = 0
    THEN "Title must be a non-empty string"
    ELSE IF Falsy(body.amount) \/ body.amount.t # "num" \/ body.amount.n <= 0
    THEN "Amount must be a positive number"
    ELSE IF Falsy(body.date) \/ ~MomentIsValid(body.date)
    THEN "Please provide a valid date"
    ELSE IF Falsy(body.category) \/ body.category.t # "str"
            \/ Len(Trim(body.category.s)) = 0
    THEN "Category must be a non-empty string"
    ELSE IF Falsy(body.transactionType)
            \/ body.transactionType \notin {Credit, Expense}
    THEN "Transaction type must be either 'credit' or 'expense'"
    ELSE IF Falsy(body.userId)
    THEN "User ID is required"
    ELSE IF ~UserFindById(body.userId)
    THEN "User not found"
    ELSE ""

(* Transaction.create({...}) *)
NewTransaction(body) ==
    [title |-> body.title, amount |-> body.amount, category |-> body.category,
     description |-> body.description, date |-> body.date, user |-> body.userId,
     transactionType |-> body.transactionType]

TransactionCreate(store, id, doc) ==
    [i \in DOMAIN store \cup {id} |-> IF i = id THEN doc ELSE store[i]]

PushReplacing(transactions, id) == <<id>>

(* user.transactions.push(newTransaction) *)
Push(transactions, id) == Append(transactions, id)

addTransactionController(body) ==
    /\ UNCHANGED <<pc, loc>>
    /\ IF AddValidation(body) # ""
       THEN /\ resp' = Response("add", <<>>, 400, AddValidation(body))
            /\ UNCHANGED <<txStore, userTx, nextId>>
       ELSE /\ nextId <= MaxTx
            /\ txStore' = TransactionCreate(txStore, nextId, NewTransaction(body))
            /\ nextId' = nextId + 1
            /\ userTx' = [userTx EXCEPT ![UserKey(body.userId)] = Push(@, nextId)]
            /\ resp' = Response("add", <<>>, 200, "Transaction Added Successfully")

(* A body that passes every validation, and bodies that fail one. *)
ValidAdd ==
    [title : {Str(<<"rent">>)}, amount : {Num(5)}, description : {Str(<<"note">>)},
     date : {DateAt(7)}, category : {Str(<<"bills">>)},
     transactionType : {Credit, Expense},
     userId : {UserId("u1"), UserId("u2")}]

BaseAdd ==
    CHOOSE b \in ValidAdd : b.transactionType = Credit /\ b.userId = UserId("u1")

InvalidAdd ==
    {[BaseAdd EXCEPT !.title = Str(<<" ", " ">>)],
     [BaseAdd EXCEPT !.amount = Num(-5)],
     [BaseAdd EXCEPT !.amount = Str(<<"5">>)],
     [BaseAdd EXCEPT !.date = Str(<<"someday">>)],
     [BaseAdd EXCEPT !.category = Undef],
     [BaseAdd EXCEPT !.transactionType = Str(<<"loan">>)],
     [BaseAdd EXCEPT !.userId = Undef],
     [BaseAdd EXCEPT !.userId = Str(<<"u9">>)],
     [BaseAdd EXCEPT !.title = Str(<<>>), !.amount = Num(0)]}

AddBodies == ValidAdd \cup InvalidAdd

(***************************************************************************)
(* Identifiers.  user.transactions holds ObjectId objects, req.params.id   *)
(* and req.body.transactionIds hold their strings.                          *)
(***************************************************************************)
ObjectId(i) == [type |-> "object", v |-> i]

IdString(i) == [type |-> "string", v |-> i]

(* objectId.toString() *)
OidToString(oid) == [type |-> "string", v |-> oid.v]

(* a === b *)
StrictEquals(a, b) == a.type = b.type /\ a.v = b.v

(* Array.prototype.includes over the strings of the request *)
Includes(ids, x) == \E i \in 1..Len(ids) : StrictEquals(IdString(ids[i]), x)

Arr(q) == [t |-> "array", s |-> q, n |-> 0]

(***************************************************************************)
(* deleteMultipleTransactionsController                                     *)
(***************************************************************************)
DeleteManyMatchAnyOwner(store, transactionIds, userId) ==
    {i \in DOMAIN store : Includes(transactionIds, IdString(i))}

(* Transaction.deleteMany({_id: {$in: transactionIds}, user: userId}):     *)
(* the documents the filter matches.                                        *)
DeleteManyMatch(store, transactionIds, userId) ==
    {i \in DOMAIN store : Includes(transactionIds, IdString(i)) /\ store[i].user = userId}

Remove(store, ids) == [i \in DOMAIN store \ ids |-> store[i]]

(* user.transactions.filter(t => !transactionIds.includes(t._id.toString())) *)
DeleteManyFilter(transactions, transactionIds) ==
    LET Keep(i) == ~Includes(transactionIds, OidToString(ObjectId(i)))
    IN  SelectSeq(transactions, Keep)

deleteMultipleTransactionsController(body) ==
    /\ UNCHANGED <<pc, loc, nextId>>
    /\ IF body.transactionIds.t # "array" \/ Len(body.transactionIds.s) = 0
       THEN /\ resp' = Response("deleteMany", <<>>, 400,
                                "Please provide valid transaction IDs")
            /\ UNCHANGED <<txStore, userTx>>
       ELSE IF ~UserFindById(body.userId)
       THEN /\ resp' = Response("deleteMany", body.transactionIds.s, 400,
                                "User not found")
            /\ UNCHANGED <<txStore, userTx>>
       ELSE LET deleted == DeleteManyMatch(txStore, body.transactionIds.s, body.userId)
            IN  /\ txStore' = Remove(txStore, deleted)
                /\ IF Cardinality(deleted) = 0
                   THEN /\ resp' = Response("deleteMany", body.transactionIds.s, 404,
                                            "No transactions found to delete")
                        /\ UNCHANGED userTx
                   ELSE /\ userTx' = [userTx EXCEPT ![UserKey(body.userId)] =
                                         DeleteManyFilter(@, body.transactionIds.s)]
                        /\ resp' = [Response("deleteMany", body.transactionIds.s, 200,
                                             "Successfully deleted")
                                       EXCEPT !.count = Cardinality(deleted)]

(***************************************************************************)
(* deleteTransactionController                                              *)
(***************************************************************************)
(* user.transactions.filter(t => t._id === transactionId) *)
DeleteOneFilter(transactions, transactionId) ==
    LET Keep(i) == StrictEquals(ObjectId(i), IdString(transactionId))
    IN  SelectSeq(transactions, Keep)

deleteTransactionController(transactionId, body) ==
    /\ UNCHANGED <<pc, loc, nextId>>
    /\ IF ~UserFindById(body.userId)
       THEN /\ resp' = Response("deleteOne", <<transactionId>>, 400, "User not found")
            /\ UNCHANGED <<txStore, userTx>>
       ELSE IF transactionId \notin DOMAIN txStore
       THEN /\ resp' = Response("deleteOne", <<transactionId>>, 400, "transaction not found")
            /\ UNCHANGED <<txStore, userTx>>
       ELSE /\ txStore' = Remove(txStore, {transactionId})
            /\ userTx' = [userTx EXCEPT ![UserKey(body.userId)] =
                             DeleteOneFilter(@, transactionId)]
            /\ resp' = Response("deleteOne", <<transactionId>>, 200,
                             "Transaction successfully deleted")

(***************************************************************************)
(* updateTransactionController                                              *)
(***************************************************************************)
OverwriteAlways(old, value) == value

(* if (value) { transactionElement.field = value; } *)
Overwrite(old, value) == IF Falsy(value) THEN old ELSE value

UpdateFields(doc, body) ==
    [title |-> Overwrite(doc.title, body.title),
     description |-> Overwrite(doc.description, body.description),
     amount |-> Overwrite(doc.amount, body.amount),
     category |-> Overwrite(doc.category, body.category),
     transactionType |-> Overwrite(doc.transactionType, body.transactionType),
     date |-> Overwrite(doc.date, body.date),
     user |-> doc.user]

updateTransactionController(transactionId, body) ==
    /\ UNCHANGED <<pc, loc, nextId, userTx>>
    /\ IF transactionId \notin DOMAIN txStore
       THEN /\ resp' = Response("update", <<transactionId>>, 400, "transaction not found")
            /\ UNCHANGED txStore
       ELSE /\ txStore' = [txStore EXCEPT ![transactionId] = UpdateFields(@, body)]
            /\ resp' = Response("update", <<transactionId>>, 200,
                             "Transaction Updated Successfully")

(***************************************************************************)
(* getAllTransactionController                                              *)
(***************************************************************************)
Digits == <<"0", "1", "2", "3", "4", "5", "6", "7", "8", "9">>

IsDigit(c) == \E d \in 1..10 : Digits[d] = c

DigitValue(c) == (CHOOSE d \in 1..10 : Digits[d] = c) - 1

RECURSIVE DecimalValue(_)
DecimalValue(s) ==
    IF s = <<>> THEN 0
    ELSE 10 * DecimalValue(SubSeq(s, 1, Len(s) - 1)) + DigitValue(s[Len(s)])

AllDigits(s) == s # <<>> /\ \A i \in 1..Len(s) : IsDigit(s[i])

NaN == [nan |-> TRUE, n |-> 0]

Finite(n) == [nan |-> FALSE, n |-> n]

(* Number(v) *)
Number(v) ==
    IF v.t = "num" THEN Finite(v.n)
    ELSE IF v.t = "str"
    THEN LET s == Trim(v.s)
         IN  IF s = <<>> THEN Finite(0)
             ELSE IF AllDigits(s) THEN Finite(DecimalValue(s))
             ELSE IF Head(s) = "-" /\ AllDigits(Tail(s)) THEN Finite(-DecimalValue(Tail(s)))
             ELSE NaN
    ELSE NaN

DefaultDays == 7

(* Number(frequency) || 7 *)
FrequencyDays(frequency) ==
    LET x == Number(frequency)
    IN  IF x.nan \/ x.n = 0 THEN DefaultDays ELSE x.n

(* moment(d).startOf('day') and .endOf('day'), in half days *)
StartOfDay(n) == n - (n % 2)

EndOfDay(n) == StartOfDay(n) + 1

(* moment().subtract(days, "days") *)
SubtractDays(n, days) == n - 2 * days

Custom == Str(<<"custom">>)

All == Str(<<"all">>)

(* The documents Transaction.find(query) matches. *)
FindMatch(store, body, now) ==
    {i \in DOMAIN store :
        /\ store[i].user = body.userId
        /\ body.type # All => store[i].transactionType = body.type
        /\ IF body.frequency = Custom /\ ~Falsy(body.startDate) /\ ~Falsy(body.endDate)
           THEN /\ store[i].date.n >= StartOfDay(body.startDate.n)
                /\ store[i].date.n <= EndOfDay(body.endDate.n)
           ELSE body.frequency # Custom =>
                   store[i].date.n
                       > StartOfDay(SubtractDays(now.n, FrequencyDays(body.frequency)))}

(* .sort({date: -1}): any order of the matches with dates descending *)
SortedByDateDesc(store, S) ==
    {q \in [1..Cardinality(S) -> S] :
        /\ Range(q) = S
        /\ \A i, j \in 1..Cardinality(S) : i < j => store[q[i]].date.n >= store[q[j]].date.n}

getAllTransactionController(body, now) ==
    /\ UNCHANGED <<txStore, userTx, nextId, pc, loc>>
    /\ IF Falsy(body.userId)
       THEN resp' = Response("list", <<>>, 400, "User ID is required")
       ELSE IF ~UserFindById(body.userId)
       THEN resp' = Response("list", <<>>, 400, "User not found")
       ELSE \E q \in SortedByDateDesc(txStore, FindMatch(txStore, body, now)) :
               resp' = [Response("list", <<>>, 200, "") EXCEPT !.transactions = q]

(***************************************************************************)
(* Requests                                                                 *)
(***************************************************************************)
IdParams == 1..MaxTx

UserIdParams == {UserId("u1"), UserId("u2"), Str(<<"u9">>)}

(* Arrays of identifier strings: every subset in increasing order. *)
RECURSIVE SeqOf(_)
SeqOf(S) ==
    IF S = {} THEN <<>>
    ELSE LET m == CHOOSE x \in S : \A y \in S : x <= y
         IN  <<m>> \o SeqOf(S \ {m})

DeleteManyBodies ==
    [transactionIds : {Arr(SeqOf(S)) : S \in SUBSET IdParams} \cup {Undef},
     userId : UserIdParams]

DeleteOneBodies == [userId : UserIdParams]

NoFields ==
    [title |-> Undef, description |-> Undef, amount |-> Undef, category |-> Undef,
     transactionType |-> Undef, date |-> Undef]

UpdateBodies ==
    {NoFields,
     [NoFields EXCEPT !.amount = Num(-5), !.transactionType = Str(<<"loan">>)]}

AllFields ==
    [title |-> Str(<<"food">>), description |-> Str(<<"memo">>), amount |-> Num(50),
     category |-> Str(<<"fun">>), transactionType |-> Expense, date |-> DateAt(9)]

FalsyFields ==
    [title |-> Str(<<>>), description |-> Undef, amount |-> Num(0),
     category |-> Str(<<>>), transactionType |-> Undef, date |-> Undef]

UpdateGroups ==
    {{"amount"}, {"title"}, {"description", "category"}, {"transactionType", "date"}}

(* No field, every field, every falsy value, the fields of one group       *)
(* alone, and every field but a falsy one.                                  *)
UpdateEachField ==
    {NoFields, AllFields, FalsyFields}
    \cup {[f \in DOMAIN AllFields |-> IF f \in G THEN AllFields[f] ELSE NoFields[f]] :
             G \in UpdateGroups}
    \cup {[AllFields EXCEPT ![f] = FalsyFields[f]] : f \in DOMAIN AllFields}

Next ==
    \/ \E body \in AddBodies : addTransactionController(body)
    \/ \E body \in DeleteManyBodies : deleteMultipleTransactionsController(body)
    \/ \E id \in IdParams, body \in DeleteOneBodies : deleteTransactionController(id, body)
    \/ \E id \in IdParams, body \in UpdateBodies : updateTransactionController(id, body)

Spec == Init /\ [][Next]_vars

(* Creates for one user and every update. *)
NextUpdate ==
    \/ \E body \in {BaseAdd, [BaseAdd EXCEPT !.amount = Num(-5)]} :
          addTransactionController(body)
    \/ \E id \in IdParams, body \in UpdateEachField : updateTransactionController(id, body)

SpecUpdate == Init /\ [][NextUpdate]_vars

(* Creates on days around the windows, and every query. *)
ListAddBodies ==
    {[BaseAdd EXCEPT !.date = d, !.transactionType = ty, !.userId = u] :
        d \in {DateAt(6), DateAt(7), DateAt(21), DateAt(23)},
        ty \in {Credit, Expense},
        u \in {UserId("u1"), UserId("u2")}}

ListBodies ==
    [userId : UserIdParams \cup {Undef},
     type : {All, Credit, Expense, Str(<<"loan">>)},
     frequency : {Num(0), Num(1), Num(-1), Str(<<"7">>), Str(<<"1", "0">>),
                  Str(<<"soon">>), Undef, Custom},
     startDate : {Undef, DateAt(7)},
     endDate : {Undef, DateAt(20)}]

Nows == {DateAt(20), DateAt(21)}

NextList ==
    \/ \E body \in ListAddBodies : addTransactionController(body)
    \/ \E body \in ListBodies, now \in Nows : getAllTransactionController(body, now)

SpecList == Init /\ [][NextList]_vars

(***************************************************************************)
(* The controllers step by step: one action per await or store call.       *)
(***************************************************************************)
Respond(p, status) ==
    /\ pc' = [pc EXCEPT ![p] = "done"]
    /\ loc' = [loc EXCEPT ![p].status = status]

(* user.save(): the document in memory replaces the stored one *)
UserSave(store, u, transactions) == [store EXCEPT ![u] = transactions]

(* lines 23-85: validation and User.findById *)
AddBegin(p, body) ==
    /\ pc[p] = "idle"
    /\ UNCHANGED <<txStore, userTx, nextId, resp>>
    /\ IF AddValidation(body) # ""
       THEN /\ pc' = [pc EXCEPT ![p] = "done"]
            /\ loc' = [loc EXCEPT ![p] = [Idle EXCEPT !.op = "add", !.status = 400]]
       ELSE /\ pc' = [pc EXCEPT ![p] = "add_create"]
            /\ loc' = [loc EXCEPT ![p] =
                          [Idle EXCEPT !.op = "add", !.body = body,
                                       !.user = UserKey(body.userId),
                                       !.loaded = userTx[UserKey(body.userId)],
                                       !.transactions = userTx[UserKey(body.userId)]]]

AddCreateReloading(p) ==
    /\ pc[p] = "add_create"
    /\ nextId <= MaxTx
    /\ txStore' = TransactionCreate(txStore, nextId, NewTransaction(loc[p].body))
    /\ nextId' = nextId + 1
    /\ pc' = [pc EXCEPT ![p] = "saving"]
    /\ loc' = [loc EXCEPT ![p].id = nextId,
                          ![p].transactions = Push(userTx[loc[p].user], nextId),
                          ![p].saved = "pending",
                          ![p].status = 200]
    /\ UNCHANGED <<userTx, resp>>

(* lines 86-103: Transaction.create, push, user.save() not awaited, 200 *)
AddCreate(p) ==
    /\ pc[p] = "add_create"
    /\ nextId <= MaxTx
    /\ txStore' = TransactionCreate(txStore, nextId, NewTransaction(loc[p].body))
    /\ nextId' = nextId + 1
    /\ pc' = [pc EXCEPT ![p] = "saving"]
    /\ loc' = [loc EXCEPT ![p].id = nextId,
                          ![p].transactions = Push(@, nextId),
                          ![p].saved = "pending",
                          ![p].status = 200]
    /\ UNCHANGED <<userTx, resp>>

(* lines 166-183 *)
DeleteManyBegin(p, body) ==
    /\ pc[p] = "idle"
    /\ UNCHANGED <<txStore, userTx, nextId, resp>>
    /\ IF \/ body.transactionIds.t # "array" \/ Len(body.transactionIds.s) = 0
          \/ ~UserFindById(body.userId)
       THEN /\ pc' = [pc EXCEPT ![p] = "done"]
            /\ loc' = [loc EXCEPT ![p] = [Idle EXCEPT !.op = "deleteMany", !.status = 400]]
       ELSE /\ pc' = [pc EXCEPT ![p] = "many_delete"]
            /\ loc' = [loc EXCEPT ![p] =
                          [Idle EXCEPT !.op = "deleteMany", !.body = body,
                                       !.user = UserKey(body.userId),
                                       !.loaded = userTx[UserKey(body.userId)],
                                       !.transactions = userTx[UserKey(body.userId)]]]

(* lines 185-201: Transaction.deleteMany, filter, await user.save() *)
DeleteManyDelete(p) ==
    LET body == loc[p].body
        deleted == DeleteManyMatch(txStore, body.transactionIds.s, body.userId)
    IN  /\ pc[p] = "many_delete"
        /\ txStore' = Remove(txStore, deleted)
        /\ UNCHANGED <<userTx, nextId, resp>>
        /\ IF Cardinality(deleted) = 0
           THEN Respond(p, 404)
           ELSE /\ pc' = [pc EXCEPT ![p] = "saving"]
                /\ loc' = [loc EXCEPT
                              ![p].count = Cardinality(deleted),
                              ![p].transactions =
                                  DeleteManyFilter(@, body.transactionIds.s),
                              ![p].saved = "pending"]

(* lines 251-265 *)
DeleteOneBegin(p, transactionId, body) ==
    /\ pc[p] = "idle"
    /\ UNCHANGED <<txStore, userTx, nextId, resp>>
    /\ IF ~UserFindById(body.userId)
       THEN /\ pc' = [pc EXCEPT ![p] = "done"]
            /\ loc' = [loc EXCEPT ![p] = [Idle EXCEPT !.op = "deleteOne", !.status = 400]]
       ELSE /\ pc' = [pc EXCEPT ![p] = "one_delete"]
            /\ loc' = [loc EXCEPT ![p] =
                          [Idle EXCEPT !.op = "deleteOne", !.body = body,
                                       !.id = transactionId,
                                       !.user = UserKey(body.userId),
                                       !.loaded = userTx[UserKey(body.userId)],
                                       !.transactions = userTx[UserKey(body.userId)]]]

(* lines 266-290: findByIdAndDelete, filter, user.save() not awaited, 200 *)
DeleteOneDelete(p) ==
    /\ pc[p] = "one_delete"
    /\ UNCHANGED <<userTx, nextId, resp>>
    /\ IF loc[p].id \notin DOMAIN txStore
       THEN Respond(p, 400) /\ UNCHANGED txStore
       ELSE /\ txStore' = Remove(txStore, {loc[p].id})
            /\ pc' = [pc EXCEPT ![p] = "saving"]
            /\ loc' = [loc EXCEPT ![p].transactions = DeleteOneFilter(@, loc[p].id),
                                  ![p].saved = "pending",
                                  ![p].status = 200]

(* lines 299-315: Transaction.findById *)
UpdateBegin(p, transactionId, body) ==
    /\ pc[p] = "idle"
    /\ UNCHANGED <<txStore, userTx, nextId, resp>>
    /\ IF transactionId \notin DOMAIN txStore
       THEN /\ pc' = [pc EXCEPT ![p] = "done"]
            /\ loc' = [loc EXCEPT ![p] = [Idle EXCEPT !.op = "update", !.status = 400]]
       ELSE /\ pc' = [pc EXCEPT ![p] = "update_save"]
            /\ loc' = [loc EXCEPT ![p] =
                          [Idle EXCEPT !.op = "update", !.body = body,
                                       !.id = transactionId]]

(* lines 317-354: await transactionElement.save() writes the fields set;   *)
(* the catch answers 401 when the document is gone.                         *)
UpdateSave(p) ==
    /\ pc[p] = "update_save"
    /\ UNCHANGED <<userTx, nextId, resp>>
    /\ IF loc[p].id \in DOMAIN txStore
       THEN /\ txStore' = [txStore EXCEPT ![loc[p].id] = UpdateFields(@, loc[p].body)]
            /\ Respond(p, 200)
       ELSE Respond(p, 401) /\ UNCHANGED txStore

(* Only deleteMultipleTransactionsController awaits user.save(). *)
AwaitsSave(op) == op = "deleteMany"

(* The write of user.save() reaches the User collection. *)
UserSaveCompletes(p) ==
    /\ pc[p] = "saving"
    /\ userTx' = UserSave(userTx, loc[p].user, loc[p].transactions)
    /\ pc' = [pc EXCEPT ![p] = "done"]
    /\ loc' = [loc EXCEPT ![p].saved = "ok",
                          ![p].status = IF AwaitsSave(loc[p].op) THEN 200 ELSE @]
    /\ UNCHANGED <<txStore, nextId, resp>>

(* The write of user.save() fails: the awaiting controller's catch answers *)
(* 500, the others have answered already.                                   *)
UserSaveFails(p) ==
    /\ pc[p] = "saving"
    /\ pc' = [pc EXCEPT ![p] = "done"]
    /\ loc' = [loc EXCEPT ![p].saved = "failed",
                          ![p].status = IF AwaitsSave(loc[p].op) THEN 500 ELSE @]
    /\ UNCHANGED <<txStore, userTx, nextId, resp>>

(* The request is over; the next one may arrive. *)
Finish(p) ==
    /\ pc[p] = "done"
    /\ pc' = [pc EXCEPT ![p] = "idle"]
    /\ loc' = [loc EXCEPT ![p] = Idle]
    /\ UNCHANGED <<txStore, userTx, nextId, resp>>

(* The requests in flight are those of one user, and of an unknown one. *)
ConcAddBodies == {BaseAdd, [BaseAdd EXCEPT !.amount = Num(-5)]}

ConcUserIds == {UserId("u1"), Str(<<"u9">>)}

ConcDeleteManyBodies ==
    [transactionIds : {Arr(SeqOf(S)) : S \in SUBSET IdParams}, userId : ConcUserIds]

ConcDeleteOneBodies == [userId : ConcUserIds]

ConcUpdateBodies == {[NoFields EXCEPT !.amount = Num(50)]}

NextConc ==
    \E p \in Procs :
        \/ \E body \in ConcAddBodies : AddBegin(p, body)
        \/ AddCreate(p)
        \/ \E body \in ConcDeleteManyBodies : DeleteManyBegin(p, body)
        \/ DeleteManyDelete(p)
        \/ \E id \in IdParams, body \in ConcDeleteOneBodies : DeleteOneBegin(p, id, body)
        \/ DeleteOneDelete(p)
        \/ \E id \in IdParams, body \in ConcUpdateBodies : UpdateBegin(p, id, body)
        \/ UpdateSave(p)
        \/ UserSaveCompletes(p)
        \/ UserSaveFails(p)
        \/ Finish(p)

SpecConc == Init /\ [][NextConc]_vars

(***************************************************************************)
(* Properties                                                               *)
(***************************************************************************)
(* Occurrences of x in q *)
Count(q, x) == Cardinality({i \in 1..Len(q) : q[i] = x})

(* q with every occurrence of x removed *)
Without(q, x) == LET Keep(y) == y # x IN SelectSeq(q, Keep)

(* C1: every identifier in a User's transactions references a Transaction  *)
(* that exists in the Transaction Store and whose owner is that User.       *)
C1_ReferencesResolve ==
    \A u \in Users : \A i \in Range(userTx[u]) :
        i \in DOMAIN txStore /\ txStore[i].user = UserId(u)

(* The six validations of a create request, as the interface states them.  *)
ValidCreate(body) ==
    /\ body.title.t = "str" /\ \E i \in 1..Len(body.title.s) : body.title.s[i] # " "
    /\ body.amount.t = "num" /\ body.amount.n > 0
    /\ body.date.t = "date"
    /\ body.category.t = "str"
    /\ \E i \in 1..Len(body.category.s) : body.category.s[i] # " "
    /\ body.transactionType \in {Credit, Expense}
    /\ \E u \in Users : body.userId = UserId(u)

C2_Effect(body) ==
    LET u == UserKey(body.userId)
        new == DOMAIN txStore' \ DOMAIN txStore
    IN  /\ resp'.success
        /\ Cardinality(new) = 1
        /\ \A i \in DOMAIN txStore : i \in DOMAIN txStore' /\ txStore'[i] = txStore[i]
        /\ \A i \in new :
              /\ txStore'[i].title = body.title
              /\ txStore'[i].amount = body.amount
              /\ txStore'[i].description = body.description
              /\ txStore'[i].date = body.date
              /\ txStore'[i].category = body.category
              /\ txStore'[i].transactionType = body.transactionType
              /\ txStore'[i].user = body.userId
              /\ Count(userTx'[u], i) = 1
        /\ \A i \in Range(userTx[u]) : Count(userTx'[u], i) = Count(userTx[u], i)
        /\ \A v \in Users \ {u} : userTx'[v] = userTx[v]

(* C2: a create whose six validations pass adds exactly one Transaction    *)
(* with the supplied fields and owner, and the owner's transactions holds  *)
(* the new identifier exactly once with every earlier reference retained.   *)
C2_ValidCreate ==
    [][resp'.op = "add" =>
          \A body \in AddBodies :
              (addTransactionController(body) /\ ValidCreate(body)) => C2_Effect(body)]_vars

C2_Witness ==
    /\ resp.op = "add" /\ resp.success
    /\ \E u \in Users : Len(userTx[u]) = 2 /\ Range(userTx[u]) \subseteq DOMAIN txStore

(* C3: after a successful deleteOne(id, ownerId) the owner's transactions  *)
(* is its earlier value with every occurrence of id removed.                *)
C3_DeleteOneRemovesOnlyId ==
    [][(resp'.op = "deleteOne" /\ resp'.success) =>
          \A id \in IdParams, body \in DeleteOneBodies :
              deleteTransactionController(id, body)
                  => userTx'[UserKey(body.userId)]
                         = Without(userTx[UserKey(body.userId)], id)]_vars

(* C5: every stored Transaction has amount > 0 and a transactionType of    *)
(* credit or expense.                                                       *)
C5_FieldInvariant ==
    \A i \in DOMAIN txStore :
        /\ txStore[i].amount.t = "num" /\ txStore[i].amount.n > 0
        /\ txStore[i].transactionType \in {Credit, Expense}

C4_Effect(body) ==
    LET u == UserKey(body.userId)
        ids == Range(body.transactionIds.s)
        removed == DOMAIN txStore \ DOMAIN txStore'
    IN  /\ removed = {i \in DOMAIN txStore : i \in ids /\ txStore[i].user = body.userId}
        /\ \A i \in DOMAIN txStore' : i \in DOMAIN txStore /\ txStore'[i] = txStore[i]
        /\ \A v \in Users \ {u} : userTx'[v] = userTx[v]
        /\ resp'.success <=> removed # {}
        /\ resp'.success => resp'.count = Cardinality(removed)
        /\ Range(userTx'[u]) \cap removed = {}

(* C4: deleteMany(ids, ownerId) with non-empty ids and an existing owner    *)
(* removes exactly the Transactions in ids owned by ownerId, leaves those  *)
(* of other users in the store and in their owners' transactions, reports  *)
(* the number removed, and leaves none of them in the owner's transactions. *)
C4_DeleteManyScoped ==
    [][(resp'.op = "deleteMany" /\ resp'.ids # <<>>) =>
          \A body \in DeleteManyBodies :
              (/\ body.transactionIds = Arr(resp'.ids)
               /\ \E u \in Users : body.userId = UserId(u)
               /\ deleteMultipleTransactionsController(body)) => C4_Effect(body)]_vars

C4_Witness ==
    /\ resp.op = "deleteMany" /\ resp.success /\ resp.count = 1 /\ Len(resp.ids) = 2
    /\ \E i \in Range(resp.ids) \cap DOMAIN txStore :
          \E v \in Users : txStore[i].user = UserId(v) /\ i \in Range(userTx[v])

UpdatableFields ==
    {"title", "description", "amount", "category", "transactionType", "date"}

(* A value that is present and not falsy: no missing field, "" or 0. *)
Supplied(v) == v # Undef /\ v # Str(<<>>) /\ v # Num(0)

C6_Effect(id, body) ==
    /\ resp'.success
    /\ DOMAIN txStore' = DOMAIN txStore
    /\ \A f \in UpdatableFields :
          txStore'[id][f] = IF Supplied(body[f]) THEN body[f] ELSE txStore[id][f]
    /\ txStore'[id].user = txStore[id].user
    /\ \A i \in DOMAIN txStore \ {id} : txStore'[i] = txStore[i]
    /\ userTx' = userTx

(* C6: update on an existing Transaction overwrites exactly the fields     *)
(* whose supplied value is truthy, and changes no other field, no other    *)
(* Transaction and no User's transactions.                                  *)
C6_UpdateFrame ==
    [][(resp'.op = "update" /\ resp'.ids[1] \in DOMAIN txStore) =>
          \A body \in UpdateEachField :
              updateTransactionController(resp'.ids[1], body)
                  => C6_Effect(resp'.ids[1], body)]_vars

C6_Witness ==
    /\ resp.op = "update" /\ resp.success
    /\ \E i \in DOMAIN txStore :
          /\ resp.ids = <<i>>
          /\ txStore[i] = [NewTransaction(BaseAdd) EXCEPT !.amount = Num(50)]

StoresUnchanged == txStore' = txStore /\ userTx' = userTx

Rejected == ~resp'.success /\ StoresUnchanged

(* C7: a request that ends in a validation or not-found error leaves both  *)
(* stores as they were: a create failing a validation, an update or        *)
(* deleteOne of a missing transaction, a deleteOne or deleteMany of a      *)
(* missing user, a deleteMany that deletes nothing.                         *)
C7_ErrorsChangeNothing ==
    [][/\ resp'.status \in {400, 404} => StoresUnchanged
       /\ resp'.op = "add" =>
             \A body \in AddBodies :
                 (~ValidCreate(body) /\ addTransactionController(body)) => Rejected
       /\ (resp'.op = "update" /\ resp'.ids[1] \notin DOMAIN txStore) =>
             \A body \in UpdateBodies :
                 updateTransactionController(resp'.ids[1], body) => Rejected
       /\ resp'.op = "deleteOne" =>
             \A body \in DeleteOneBodies :
                 (/\ \/ resp'.ids[1] \notin DOMAIN txStore
                     \/ body.userId \notin {UserId(u) : u \in Users}
                  /\ deleteTransactionController(resp'.ids[1], body)) => Rejected
       /\ resp'.op = "deleteMany" =>
             \A body \in DeleteManyBodies :
                 (/\ body.transactionIds \in {Arr(resp'.ids), Undef}
                  /\ \/ body.userId \notin {UserId(u) : u \in Users}
                     \/ DOMAIN txStore' = DOMAIN txStore
                  /\ deleteMultipleTransactionsController(body)) => Rejected]_vars

C7_Witness ==
    /\ resp.op = "add" /\ resp.status = 400
    /\ resp.message = "Amount must be a positive number"
    /\ txStore # <<>>

(* The window the interface states: frequency days when frequency is a     *)
(* valid non-negative integer, 7 days otherwise.                            *)
StatedDays(frequency) ==
    LET x == Number(frequency)
    IN  IF ~x.nan /\ x.n >= 0 /\ frequency # Str(<<>>) THEN x.n ELSE 7

C8_Result(body, now) ==
    {i \in DOMAIN txStore :
        /\ txStore[i].user = body.userId
        /\ body.type = All \/ txStore[i].transactionType = body.type
        /\ txStore[i].date.n > StartOfDay(now.n - 2 * StatedDays(body.frequency))}

(* C8: list with an existing owner and a frequency other than "custom"     *)
(* returns exactly the owner's Transactions of the requested type dated    *)
(* strictly after startOfDay(now - N days), N = frequency when it is a     *)
(* valid non-negative integer (0 included) and 7 otherwise.                 *)
C8_ListWindow ==
    [][resp'.op = "list" =>
          \A body \in ListBodies, now \in Nows :
              (/\ getAllTransactionController(body, now)
               /\ \E u \in Users : body.userId = UserId(u)
               /\ body.frequency # Custom)
                  => /\ resp'.success
                     /\ Range(resp'.transactions) = C8_Result(body, now)]_vars

(* The identifiers a request in flight names for deletion. *)
Named(q) ==
    IF loc[q].op = "deleteMany" THEN Range(loc[q].body.transactionIds.s) ELSE {}

C9_Lost(q) ==
    LET u == loc[q].user
        missedAdds == Range(userTx[u]) \ Range(loc[q].loaded)
        missedRemoves == Range(loc[q].loaded) \ Range(userTx[u])
    IN  /\ \A a \in missedAdds : a \notin Range(userTx'[u])
        /\ loc[q].op # "deleteOne" =>
              \A r \in missedRemoves \ Named(q) :
                  r \notin DOMAIN txStore => r \in Range(userTx'[u])

(* C9: when a request saves a User it loaded before another request's save *)
(* of that User, the other request's update is lost: a reference the other *)
(* request added is missing after the save, and a reference it removed     *)
(* for a deleted Transaction is back.                                       *)
C9_StaleSaveLosesUpdate ==
    [][\A q \in Procs :
          (pc[q] = "saving" /\ pc'[q] = "done" /\ loc'[q].saved = "ok") => C9_Lost(q)]_vars

C9_Witness ==
    /\ \A p \in Procs : pc[p] = "done" /\ loc[p].op = "add" /\ loc[p].saved = "ok"
    /\ \E p, q \in Procs :
          /\ p # q /\ loc[p].user = loc[q].user
          /\ loc[p].id \notin Range(loc[q].loaded)
          /\ loc[q].id \notin Range(loc[p].loaded)
          /\ {loc[p].id, loc[q].id} \subseteq DOMAIN txStore
          /\ loc[p].status = 200 /\ loc[q].status = 200
          /\ loc[p].id \notin Range(userTx[loc[p].user])

(* C10: a request answers success only after all of its store writes,      *)
(* the save of the User document included, have completed, and never when  *)
(* that save failed.                                                        *)
C10_SuccessAfterWrites ==
    \A p \in Procs : loc[p].status = 200 => loc[p].saved \in {"none", "ok"}
====
